---------------------------- MODULE Spec2Model ----------------------------
(***************************************************************************)
(* Model of the Python SDK in src/python/src/vemorak_sdk: the input        *)
(* validators (validate.py), the two clients' request/response             *)
(* classification and their operations (client.py), and the error          *)
(* taxonomy (errors.py).                                                   *)
(*                                                                         *)
(* Encodings.                                                              *)
(*   - A Python str is a sequence of one-character strings.                *)
(*   - An optional value (x | None) is <<>> for None and <<x>> otherwise.  *)
(*   - A response body is a sequence of chunks: whitespace chunks and at   *)
(*     most one payload chunk (the text between the surrounding            *)
(*     whitespace), so that text.strip() and the raw text differ.          *)
(*   - A JSON value inside an object is an atom [t |-> type, v |-> text];  *)
(*     a JSON object is a function from key to atom.                       *)
(***************************************************************************)
EXTENDS Integers, Sequences, FiniteSets, TLC

---------------------------------------------------------------------------
(* Bounds of the model and constants of the program *)

\* largest timeout_ms a caller passes to wait_for_batch
MaxTimeout == 2
\* largest poll_interval_ms a caller passes to wait_for_batch
MaxInterval == 2
\* the poll counter of one wait_for_batch call saturates here
MaxPolls == 3

\* validate.py: tenant_id and scope are at most 128 characters
MaxNameLen == 128
\* validate.py: _UUID_LIKE needs at least 16 characters
MinUuidLen == 16
\* validate.py: assert_limit's range
MinLimit == 1
MaxLimit == 500

---------------------------------------------------------------------------
(* Python values *)

None == <<>>
Some(x) == <<x>>
IsNone(o) == o = <<>>
Val(o) == o[1]

Rep(c, n) == [i \in 1..n |-> c]

WhitespaceChars == {" ", "\t", "\n"}
HexDashChars == {"0","1","2","3","4","5","6","7","8","9",
                 "a","b","c","d","e","f","A","B","C","D","E","F","-"}

\* str.strip() is non-empty: some character is not whitespace
HasNonSpace(s) == \E i \in 1..Len(s) : s[i] \notin WhitespaceChars
\* any(ch.isspace() for ch in s)
HasSpace(s) == \E i \in 1..Len(s) : s[i] \in WhitespaceChars
\* ":" in s
Contains(s, c) == \E i \in 1..Len(s) : s[i] = c
\* s.startswith(p)
StartsWith(s, p) == Len(p) <= Len(s) /\ \A i \in 1..Len(p) : s[i] = p[i]
\* s.endswith(c) for a one-character c
EndsWith(s, c) == Len(s) > 0 /\ s[Len(s)] = c

---------------------------------------------------------------------------
(* validate.py: each validator gives None when it passes and the message of *)
(* the VemorakSdkError it raises otherwise                                  *)

assert_non_empty(name, value) ==
    IF ~HasNonSpace(value) THEN Some(<<name, "must be a non-empty string">>)
    ELSE None

assert_tenant_id(tenant_id) ==
    IF ~IsNone(assert_non_empty("tenant_id", tenant_id))
      THEN assert_non_empty("tenant_id", tenant_id)
    ELSE IF Len(tenant_id) > MaxNameLen
      THEN Some(<<"tenant_id", "must be 1..128 chars">>)
    ELSE IF HasSpace(tenant_id)
      THEN Some(<<"tenant_id", "must not contain spaces">>)
    ELSE None

\* assert_scope without the test for ":"
assert_scope_no_separator(scope) ==
    IF ~IsNone(assert_non_empty("scope", scope))
      THEN assert_non_empty("scope", scope)
    ELSE IF Len(scope) > MaxNameLen
      THEN Some(<<"scope", "must be 1..128 chars">>)
    ELSE None

assert_scope(scope) ==
    IF ~IsNone(assert_non_empty("scope", scope))
      THEN assert_non_empty("scope", scope)
    ELSE IF Len(scope) > MaxNameLen
      THEN Some(<<"scope", "must be 1..128 chars">>)
    ELSE IF ~Contains(scope, ":")
      THEN Some(<<"scope", "must contain ':' for namespacing">>)
    ELSE None

assert_scope_prefix(scope_prefix) ==
    IF ~IsNone(assert_non_empty("scope_prefix", scope_prefix))
      THEN assert_non_empty("scope_prefix", scope_prefix)
    ELSE IF ~EndsWith(scope_prefix, ":")
      THEN Some(<<"scope_prefix", "must end with ':'">>)
    ELSE None

\* assert_scope_matches_prefix with the operands of startswith exchanged
assert_scope_matches_prefix_swapped(scope, scope_prefix) ==
    IF ~StartsWith(scope_prefix, scope)
      THEN Some(<<"scope", "outside key prefix">>)
    ELSE None

assert_scope_matches_prefix(scope, scope_prefix) ==
    IF ~StartsWith(scope, scope_prefix)
      THEN Some(<<"scope", "outside key prefix">>)
    ELSE None

\* re.compile(r"^[0-9a-fA-F-]{16,}$").match(value): "$" also matches just
\* before one trailing newline
UuidLikeMatch(value) ==
    LET AllHexDash(s) == \A i \in 1..Len(s) : s[i] \in HexDashChars
    IN  \/ Len(value) >= MinUuidLen /\ AllHexDash(value)
        \/ /\ Len(value) >= MinUuidLen + 1
           /\ value[Len(value)] = "\n"
           /\ AllHexDash(SubSeq(value, 1, Len(value) - 1))

assert_uuid_like(name, value) ==
    IF ~IsNone(assert_non_empty(name, value))
      THEN assert_non_empty(name, value)
    ELSE IF ~UuidLikeMatch(value)
      THEN Some(<<name, "must look like a UUID">>)
    ELSE None

\* limit is None or an int
assert_limit(limit) ==
    IF IsNone(limit) THEN None
    ELSE IF Val(limit) < MinLimit \/ Val(limit) > MaxLimit
      THEN Some(<<"limit", "must be within 1..500">>)
    ELSE None

\* the first message of a sequence of checks run in order, None when all pass
FirstError(checks) ==
    IF \A i \in 1..Len(checks) : IsNone(checks[i]) THEN None
    ELSE checks[CHOOSE i \in 1..Len(checks) :
                  /\ ~IsNone(checks[i])
                  /\ \A j \in 1..(i - 1) : IsNone(checks[j])]

---------------------------------------------------------------------------
(* JSON values and response bodies *)

Str(v) == [t |-> "str", v |-> v]
Num(v) == [t |-> "num", v |-> v]
Bool(v) == [t |-> "bool", v |-> v]
Obj(v) == [t |-> "obj", v |-> v]
Arr(v) == [t |-> "arr", v |-> v]
\* JSON null and Python None
Null == [t |-> "null", v |-> "null"]

EmptyDict == [k \in {} |-> Null]

\* dict.get(key): None when the key is missing
Get(d, key) == IF key \in DOMAIN d THEN d[key] ELSE Null

\* Python truth value of a decoded JSON value
Falsy(a) == a.t = "null" \/ a.v \in {"", "0", "false", "[]", "{}"}

\* nested JSON objects, by the text an Obj atom carries
NestedObj(v) ==
    CASE v = "ev1" ->
           ("id" :> Str("e1")) @@ ("tenant_id" :> Str("t0")) @@ ("scope" :> Str("u:a")) @@
           ("op" :> Str("delete")) @@ ("created_at" :> Str("c1")) @@
           ("fields" :> Obj("{}")) @@ ("event_hash_hex" :> Str("h1")) @@
           ("fields_canon" :> Str("fc")) @@ ("meta_canon" :> Str("mc")) @@
           ("c_fields_hex" :> Str("cf")) @@ ("batch_id" :> Str("b1"))
      [] v = "pr1" ->
           ("event_id" :> Str("e1")) @@ ("tenant_id" :> Str("t0")) @@
           ("scope" :> Str("u:a")) @@ ("batch_id" :> Str("b1")) @@ ("path" :> Arr("path1"))
      [] v = "rc1" ->
           ("recomputed_event_hash_hex" :> Str("h1")) @@ ("matches_stored" :> Bool("true"))
      [] v = "bundle1" ->
           ("kind" :> Str("event_bundle")) @@ ("event" :> Obj("ev1")) @@
           ("proof" :> Obj("pr1")) @@ ("recompute" :> Obj("rc1"))
      [] v = "ev2" ->
           ("id" :> Str("e2")) @@ ("tenant_id" :> Str("t0")) @@ ("scope" :> Str("u:a")) @@
           ("op" :> Str("write")) @@ ("created_at" :> Str("c2")) @@
           ("meta" :> Obj("{\"a\":1}")) @@ ("event_hash_hex" :> Str("h2")) @@
           ("prev_hash_hex" :> Str("h1")) @@ ("fields_canon" :> Str("fc")) @@
           ("meta_canon" :> Str("mc")) @@ ("c_fields_hex" :> Str("cf")) @@
           ("leaf_index" :> Num("0"))
      [] v = "ev3" ->
           ("id" :> Str("e3")) @@ ("tenant_id" :> Str("t0")) @@ ("scope" :> Str("u:a")) @@
           ("op" :> Str("write")) @@ ("created_at" :> Str("c3")) @@
           ("fields" :> Obj("{\"f\":1}")) @@ ("event_hash_hex" :> Str("h3")) @@
           ("fields_canon" :> Str("fc")) @@ ("meta_canon" :> Str("mc"))
      [] v = "pr2" ->
           ("event_id" :> Str("e2")) @@ ("tenant_id" :> Str("t0")) @@
           ("scope" :> Str("u:a")) @@ ("batch_id" :> Null)
      [] v = "rc2" ->
           ("recomputed_event_hash_hex" :> Str("h9")) @@ ("matches_stored" :> Num("0"))
      [] v = "bundle2" ->
           ("kind" :> Str("event_bundle")) @@ ("event" :> Obj("ev2")) @@
           ("proof" :> Obj("pr2")) @@ ("recompute" :> Obj("rc2"))
      [] v = "bundle3" ->
           ("kind" :> Str("event_bundle")) @@ ("event" :> Obj("ev3")) @@
           ("proof" :> Obj("pr1")) @@ ("recompute" :> Obj("rc1"))
      [] v = "bundle4" ->
           ("event" :> Obj("ev1")) @@ ("proof" :> Obj("pr1")) @@
           ("recompute" :> Obj("rc1"))
      [] v = "bundle5" ->
           ("kind" :> Str("event_bundle")) @@ ("event" :> Obj("ev1")) @@
           ("proof" :> Null) @@ ("recompute" :> Obj("rc1"))
      [] v = "bundle6" ->
           ("kind" :> Str("event_bundle")) @@ ("event" :> Obj("ev2")) @@
           ("proof" :> Obj("pr1"))
      [] v = "rcpt1" ->
           [k \in {"receipt_id", "tenant_id", "scope", "delete_event_id",
                   "delete_event_hash_hex", "sig_base64", "pubkey_id",
                   "pubkey_base64", "pubkey_hex", "created_at"} |-> Str(k)]
      [] v = "ver1" -> ("receipt_id" :> Str("receipt_id")) @@ ("valid" :> Bool("true"))
      [] v = "item1" ->
           [k \in {"id", "tenant_id", "scope", "op", "created_at", "root_hex",
                   "receipt_id", "delete_event_id", "delete_event_hash_hex",
                   "sig_base64", "pubkey_id", "pubkey_base64", "pubkey_hex",
                   "name", "key_prefix"} |-> Str(k)] @@ ("count" :> Num("3"))
      [] v = "sib1" ->
           ("sibling_hex" :> Str("s1")) @@ ("sibling_is_left" :> Bool("false"))
      [] OTHER -> EmptyDict

\* JSON arrays, by the text an Arr atom carries: the elements
ArrayItems(v) ==
    CASE v = "items1" -> <<Obj("item1")>>
      [] v = "itemsBad" -> <<Obj("item1"), Obj("{}")>>
      [] v = "path1" -> <<Obj("sib1")>>
      [] OTHER -> <<>>

\* an object holding every key the flat (un-nested) results read
P_Rich == "{\"tenant_id\":\"tenant_id\", ... every flat key ...}"
RichKeys ==
    {"tenant_id", "key_id", "scope_prefix", "delete_event_id",
     "delete_event_hash_hex", "receipt_id", "receipt_sig_base64", "pubkey_id",
     "pubkey_base64", "pubkey_hex", "created_at", "scope", "sig_base64", "alg",
     "status", "id", "name", "expires_at", "key_prefix", "secret", "revoked_at"}
RichObj ==
    [k \in RichKeys |-> Str(k)] @@ ("valid" :> Bool("true")) @@ ("ok" :> Bool("true")) @@
    ("events_total" :> Num("3")) @@ ("batches_total" :> Num("1")) @@
    ("receipts_total" :> Num("1")) @@ ("checks" :> Obj("{\"sig\":true}")) @@
    ("allowed_scopes" :> Arr("[\"u:a\"]")) @@ ("scopes" :> Arr("[\"u:a\"]")) @@
    ("items" :> Arr("items1"))
P_ItemsBad == "{\"tenant_id\":\"t0\",\"items\":[{...},{}]}"
P_EventBundle == "{\"kind\":\"event_bundle\",\"event\":{...},\"proof\":{...},\"recompute\":{...}}"
P_DeletionBundle == "{\"kind\":\"deletion_receipt_bundle\",\"receipt\":{...},\"verification\":{...},\"delete_event_bundle\":{...}}"

\* the event bundles a server may send, by the name of their object: complete,
\* without the optional fields, without a required event field, without
\* "kind", with a null proof, without "recompute"
BundleNames == {"bundle1", "bundle2", "bundle3", "bundle4", "bundle5", "bundle6"}
\* the text of each as a body of its own
EventBundleText ==
    ("bundle1" :> P_EventBundle) @@
    ("bundle2" :> "{\"kind\":\"event_bundle\",\"event\":{no fields},\"proof\":{no path},\"recompute\":{\"matches_stored\":0}}") @@
    ("bundle3" :> "{\"kind\":\"event_bundle\",\"event\":{no c_fields_hex},\"proof\":{...},\"recompute\":{...}}") @@
    ("bundle4" :> "{\"event\":{...},\"proof\":{...},\"recompute\":{...}}") @@
    ("bundle5" :> "{\"kind\":\"event_bundle\",\"event\":{...},\"proof\":null,\"recompute\":{...}}") @@
    ("bundle6" :> "{\"kind\":\"event_bundle\",\"event\":{no fields},\"proof\":{...}}")
\* the text of a deletion-receipt bundle that nests each
DeletionBundleText ==
    ("bundle1" :> P_DeletionBundle) @@
    ("bundle2" :> "{\"kind\":\"deletion_receipt_bundle\",...,\"delete_event_bundle\":{bundle2}}") @@
    ("bundle3" :> "{\"kind\":\"deletion_receipt_bundle\",...,\"delete_event_bundle\":{bundle3}}") @@
    ("bundle4" :> "{\"kind\":\"deletion_receipt_bundle\",...,\"delete_event_bundle\":{bundle4}}") @@
    ("bundle5" :> "{\"kind\":\"deletion_receipt_bundle\",...,\"delete_event_bundle\":{bundle5}}") @@
    ("bundle6" :> "{\"kind\":\"deletion_receipt_bundle\",...,\"delete_event_bundle\":{bundle6}}")

\* payload texts a server may send
P_ErrDetails == "{\"error\":\"invalid input\",\"details\":{\"field\":\"scope\"}}"
P_ErrOnly == "{\"error\":\"not found\"}"
P_ErrNotStr == "{\"error\":42,\"details\":\"d\"}"
P_Text == "Bad Gateway"
P_Array == "[1]"
P_EmptyObj == "{}"
P_Ingest == "{\"event_id\":\"e1\",\"event_hash_hex\":\"h1\",\"prev_hash_hex\":\"h0\",\"created_at\":\"c1\"}"
P_IngestNoPrev == "{\"event_id\":\"e2\",\"event_hash_hex\":\"h2\",\"created_at\":\"c2\"}"
P_IngestNumbers == "{\"event_id\":7,\"event_hash_hex\":\"h3\",\"prev_hash_hex\":null,\"created_at\":1700000000}"
P_ProofPending == "{\"event_id\":\"e1\",\"tenant_id\":\"t0\",\"scope\":\"u:a\",\"batch_id\":null}"
P_ProofBatched == "{\"event_id\":\"e1\",\"tenant_id\":\"t0\",\"scope\":\"u:a\",\"batch_id\":\"b1\",\"leaf_index\":0}"
P_ProofBatched2 == "{\"event_id\":\"e1\",\"tenant_id\":\"t0\",\"scope\":\"u:a\",\"batch_id\":\"b2\"}"

\* json.loads of a payload text: the decoded object, a decoded value that is
\* no object, or a decode error
JsonLoads(payload) ==
    CASE payload = P_ErrDetails ->
           [kind |-> "object",
            obj |-> ("error" :> Str("invalid input")) @@
                    ("details" :> Obj("{\"field\":\"scope\"}"))]
      [] payload = P_ErrOnly ->
           [kind |-> "object", obj |-> ("error" :> Str("not found"))]
      [] payload = P_ErrNotStr ->
           [kind |-> "object",
            obj |-> ("error" :> Num("42")) @@ ("details" :> Str("d"))]
      [] payload = P_Array -> [kind |-> "other", obj |-> EmptyDict]
      [] payload = P_EmptyObj -> [kind |-> "object", obj |-> EmptyDict]
      [] payload = P_Ingest ->
           [kind |-> "object",
            obj |-> ("event_id" :> Str("e1")) @@ ("event_hash_hex" :> Str("h1")) @@
                    ("prev_hash_hex" :> Str("h0")) @@ ("created_at" :> Str("c1"))]
      [] payload = P_IngestNoPrev ->
           [kind |-> "object",
            obj |-> ("event_id" :> Str("e2")) @@ ("event_hash_hex" :> Str("h2")) @@
                    ("created_at" :> Str("c2"))]
      [] payload = P_IngestNumbers ->
           [kind |-> "object",
            obj |-> ("event_id" :> Num("7")) @@ ("event_hash_hex" :> Str("h3")) @@
                    ("prev_hash_hex" :> Null) @@ ("created_at" :> Num("1700000000"))]
      [] payload = P_ProofPending ->
           [kind |-> "object",
            obj |-> ("event_id" :> Str("e1")) @@ ("tenant_id" :> Str("t0")) @@
                    ("scope" :> Str("u:a")) @@ ("batch_id" :> Null)]
      [] payload = P_ProofBatched ->
           [kind |-> "object",
            obj |-> ("event_id" :> Str("e1")) @@ ("tenant_id" :> Str("t0")) @@
                    ("scope" :> Str("u:a")) @@ ("batch_id" :> Str("b1")) @@
                    ("leaf_index" :> Num("0"))]
      [] payload = P_ProofBatched2 ->
           [kind |-> "object",
            obj |-> ("event_id" :> Str("e1")) @@ ("tenant_id" :> Str("t0")) @@
                    ("scope" :> Str("u:a")) @@ ("batch_id" :> Str("b2"))]
      [] payload = P_Rich -> [kind |-> "object", obj |-> RichObj]
      [] payload = P_ItemsBad ->
           [kind |-> "object",
            obj |-> ("tenant_id" :> Str("t0")) @@ ("items" :> Arr("itemsBad"))]
      [] \E b \in BundleNames : payload = EventBundleText[b] ->
           [kind |-> "object",
            obj |-> NestedObj(CHOOSE b \in BundleNames : payload = EventBundleText[b])]
      [] \E b \in BundleNames : payload = DeletionBundleText[b] ->
           [kind |-> "object",
            obj |-> ("kind" :> Str("deletion_receipt_bundle")) @@
                    ("receipt" :> Obj("rcpt1")) @@ ("verification" :> Obj("ver1")) @@
                    ("delete_event_bundle" :>
                       Obj(CHOOSE b \in BundleNames : payload = DeletionBundleText[b]))]
      [] OTHER -> [kind |-> "invalid", obj |-> EmptyDict]

\* text.strip() on a body
Strip(text) ==
    LET idx == {i \in 1..Len(text) : text[i] \notin WhitespaceChars}
    IN  IF idx = {} THEN <<>>
        ELSE SubSeq(text, CHOOSE i \in idx : \A j \in idx : i <= j,
                          CHOOSE i \in idx : \A j \in idx : i >= j)

\* resp.json(): the decoder skips the whitespace around the document
RespJson(text) ==
    IF Len(Strip(text)) = 1 THEN JsonLoads(Strip(text)[1])
    ELSE [kind |-> "invalid", obj |-> EmptyDict]

---------------------------------------------------------------------------
(* errors.py: the kinds of exception an operation ends with *)

VemorakSdkError == "VemorakSdkError"
VmpHttpError == "VmpHttpError"
VmpTimeoutError == "VmpTimeoutError"

\* VmpHttpError and VmpTimeoutError derive from VemorakSdkError
IsSdkError(kind) == kind \in {VemorakSdkError, VmpHttpError, VmpTimeoutError}

NoResult == [k \in {} |-> Null]

Outcome(kind, msg, status, error, details, raw, result) ==
    [kind |-> kind, msg |-> msg, status |-> status, error |-> error,
     details |-> details, raw_body_text |-> raw, result |-> result]

Returned(result) == Outcome("ok", None, 0, <<>>, Null, <<>>, result)
Raised(kind) == Outcome(kind, None, 0, <<>>, Null, <<>>, NoResult)
ValidationError(msg) == Outcome(VemorakSdkError, msg, 0, <<>>, Null, <<>>, NoResult)

---------------------------------------------------------------------------
(* client.py: the HTTP layer *)

ApiKey == <<"k", "1">>
ProvisionToken == <<"p", "1">>

Bearer(token) == <<"Bearer ", token>>

\* the headers the VmpClient's httpx.Client was constructed with
VmpClientHeaders ==
    ("Accept" :> <<"application/json">>) @@ ("Authorization" :> Bearer(ApiKey))

\* the headers the ProvisioningClient's httpx.Client was constructed with
ProvClientHeaders ==
    ("Accept" :> <<"application/json">>) @@ ("Authorization" :> Bearer(ProvisionToken))

NoHeaders == [h \in {} |-> <<>>]

\* httpx.Client.request: the request that goes on the wire carries the
\* client's own headers, overridden by the headers of the call
ClientRequest(client_headers, method, path, params, json, headers) ==
    [method |-> method, path |-> path, params |-> params, json |-> json,
     headers |-> [h \in DOMAIN client_headers \cup DOMAIN headers |->
                    IF h \in DOMAIN headers THEN headers[h] ELSE client_headers[h]]]

\* what the transport gives back: a timeout, or a status and a body
TimedOut == [timeout |-> TRUE, status_code |-> 0, text |-> <<>>]
Response(status, text) == [timeout |-> FALSE, status_code |-> status, text |-> text]

NoData == [kind |-> "none", obj |-> EmptyDict]

\* the status test with `> 300` in place of `>= 300`
Vmp_is_error_status_above_300(status_code) == status_code < 200 \/ status_code > 300

\* VmpClient._request_json, `if resp.status_code < 200 or resp.status_code >= 300`
Vmp_is_error_status(status_code) == status_code < 200 \/ status_code >= 300

\* Vmp_http_error that never reads the body's "error" field
Vmp_http_error_raw_message(status_code, text) ==
    LET fallback == IF Strip(text) # <<>> THEN Strip(text) ELSE <<"unknown error">>
        parsed == RespJson(text)
        details == IF parsed.kind = "object" THEN Get(parsed.obj, "details") ELSE Null
    IN  Outcome(VmpHttpError, None, status_code, fallback, details, text, NoResult)

\* VmpClient._request_json: the VmpHttpError raised for an error status
Vmp_http_error(status_code, text) ==
    LET fallback == IF Strip(text) # <<>> THEN Strip(text) ELSE <<"unknown error">>
        parsed == RespJson(text)
        err_str == IF parsed.kind = "object" /\ Get(parsed.obj, "error").t = "str"
                     THEN <<Get(parsed.obj, "error").v>>
                   ELSE fallback
        details == IF parsed.kind = "object" THEN Get(parsed.obj, "details") ELSE Null
    IN  Outcome(VmpHttpError, None, status_code, err_str, details, text, NoResult)

\* the transport's timeout reported as an HTTP error of status 0
Vmp_timeout_error_as_http ==
    Outcome(VmpHttpError, None, 0, <<"unknown error">>, Null, <<>>, NoResult)

\* VmpClient._request_json, `except httpx.TimeoutException: raise VmpTimeoutError`
Vmp_timeout_error == Raised(VmpTimeoutError)

\* the test of the idempotency key as `is not None`
Vmp_has_idempotency_key_not_none(idempotency_key) == ~IsNone(idempotency_key)

\* VmpClient._request_json, `if idempotency_key:`
Vmp_has_idempotency_key(idempotency_key) ==
    ~IsNone(idempotency_key) /\ Val(idempotency_key) # <<>>

\* VmpClient._request_json: the request put on the wire, then either the
\* decoded body (out.kind = "ok") or the error raised
Vmp_request_json(method, path, query, body, idempotency_key, auth, resp) ==
    LET h0 == ("Accept" :> <<"application/json">>)
        h1 == IF auth THEN h0 @@ ("Authorization" :> Bearer(ApiKey)) ELSE h0
        headers == IF Vmp_has_idempotency_key(idempotency_key)
                     THEN h1 @@ ("x-idempotency-key" :> Val(idempotency_key))
                   ELSE h1
        req == ClientRequest(VmpClientHeaders, method, path, query,
                             IF method # "GET" THEN body ELSE None, headers)
        text == resp.text
    IN  IF resp.timeout THEN
          [req |-> req, out |-> Vmp_timeout_error, data |-> NoData]
        ELSE IF Vmp_is_error_status(resp.status_code) THEN
          [req |-> req, out |-> Vmp_http_error(resp.status_code, text), data |-> NoData]
        ELSE IF Strip(text) = <<>> THEN
          [req |-> req, out |-> Returned(NoResult),
           data |-> [kind |-> "object", obj |-> EmptyDict]]
        ELSE IF RespJson(text).kind = "invalid" THEN
          [req |-> req, out |-> Raised("JSONDecodeError"), data |-> NoData]
        ELSE [req |-> req, out |-> Returned(NoResult), data |-> RespJson(text)]

\* ProvisioningClient._request_json, the same test of the status
Prov_is_error_status(status_code) == status_code < 200 \/ status_code >= 300

\* Prov_http_error with `text or "unknown error"`: the fallback is not trimmed
Prov_http_error_untrimmed(status_code, text) ==
    LET fallback == IF text # <<>> THEN text ELSE <<"unknown error">>
        parsed == RespJson(text)
        err_str == IF parsed.kind = "object" /\ Get(parsed.obj, "error").t = "str"
                     THEN <<Get(parsed.obj, "error").v>>
                   ELSE fallback
        details == IF parsed.kind = "object" THEN Get(parsed.obj, "details") ELSE Null
    IN  Outcome(VmpHttpError, None, status_code, err_str, details, text, NoResult)

\* ProvisioningClient._request_json: the VmpHttpError raised for an error status
Prov_http_error(status_code, text) ==
    LET fallback == IF Strip(text) # <<>> THEN Strip(text) ELSE <<"unknown error">>
        parsed == RespJson(text)
        err_str == IF parsed.kind = "object" /\ Get(parsed.obj, "error").t = "str"
                     THEN <<Get(parsed.obj, "error").v>>
                   ELSE fallback
        details == IF parsed.kind = "object" THEN Get(parsed.obj, "details") ELSE Null
    IN  Outcome(VmpHttpError, None, status_code, err_str, details, text, NoResult)

\* ProvisioningClient._request_json, the same handler of the transport's timeout
Prov_timeout_error == Raised(VmpTimeoutError)

\* ProvisioningClient._request_json: no per-call headers
Prov_request_json(method, path, query, body, resp) ==
    LET req == ClientRequest(ProvClientHeaders, method, path, query,
                             IF method # "GET" THEN body ELSE None, NoHeaders)
        text == resp.text
    IN  IF resp.timeout THEN
          [req |-> req, out |-> Prov_timeout_error, data |-> NoData]
        ELSE IF Prov_is_error_status(resp.status_code) THEN
          [req |-> req, out |-> Prov_http_error(resp.status_code, text), data |-> NoData]
        ELSE IF Strip(text) = <<>> THEN
          [req |-> req, out |-> Returned(NoResult),
           data |-> [kind |-> "object", obj |-> EmptyDict]]
        ELSE IF RespJson(text).kind = "invalid" THEN
          [req |-> req, out |-> Raised("JSONDecodeError"), data |-> NoData]
        ELSE [req |-> req, out |-> Returned(NoResult), data |-> RespJson(text)]

---------------------------------------------------------------------------
(* client.py: mapping a decoded body to a typed result *)

\* str(x), bool(x), int(x), list(x or []), x or {}
Convert(c, a) ==
    CASE c = "str" -> Str(a.v)
      [] c = "bool" -> Bool(IF Falsy(a) THEN "false" ELSE "true")
      [] c = "list" -> IF Falsy(a) THEN Arr("[]") ELSE a
      [] c = "dict" -> IF Falsy(a) THEN Obj("{}") ELSE a
      [] OTHER -> a

\* the exception a conversion raises, "" when it raises none
ConvertError(c, a) ==
    IF c = "int" /\ a.t \in {"null", "obj", "arr"} THEN "TypeError"
    ELSE IF c = "int" /\ a.t = "str" THEN "ValueError"
    ELSE IF c = "list" /\ ~Falsy(a) /\ a.t \in {"num", "bool"} THEN "TypeError"
    ELSE ""

\* T(k=obj[k] for the required keys, k=obj.get(k) for the optional ones), each
\* through its conversion: [err, value]
MapObject(obj, required, optional, conv) ==
    LET keys == required \cup optional
        C(k) == IF k \in DOMAIN conv THEN conv[k] ELSE "id"
        bad == {k \in keys : ConvertError(C(k), Get(obj, k)) # ""}
    IN  IF ~(required \subseteq DOMAIN obj) THEN [err |-> "KeyError", value |-> NoResult]
        ELSE IF bad # {}
          THEN [err |-> ConvertError(C(CHOOSE k \in bad : TRUE),
                                     Get(obj, CHOOSE k \in bad : TRUE)),
                value |-> NoResult]
        ELSE [err |-> "", value |-> [k \in keys |-> Convert(C(k), Get(obj, k))]]

NoConv == [k \in {} |-> "id"]

\* [T(...) for item in (x or [])]: [err, value], value the sequence of results
MapItems(a, required, optional, conv) ==
    IF Falsy(a) THEN [err |-> "", value |-> <<>>]
    ELSE IF a.t # "arr" THEN [err |-> "TypeError", value |-> <<>>]
    ELSE LET items == ArrayItems(a.v)
             M(i) == IF items[i].t # "obj"
                       THEN [err |-> "TypeError", value |-> NoResult]
                     ELSE MapObject(NestedObj(items[i].v), required, optional, conv)
             bad == {i \in 1..Len(items) : M(i).err # ""}
         IN  IF bad # {}
               THEN [err |-> M(CHOOSE i \in bad : \A j \in bad : i <= j).err,
                     value |-> <<>>]
             ELSE [err |-> "", value |-> [i \in 1..Len(items) |-> M(i).value]]

\* Finish that sends the request a second time when the first one failed
Finish_resend(r, first, m) ==
    [reqs |-> IF r.out.kind # "ok" THEN <<r.req, r.req>> ELSE <<r.req>>,
     out |-> IF r.out.kind # "ok" THEN r.out
             ELSE IF r.data.kind # "object"
               THEN Raised(IF first = "get" THEN "AttributeError" ELSE "TypeError")
             ELSE IF m.err # "" THEN Raised(m.err)
             ELSE Returned(m.value)]

\* what an operation gives once _request_json has answered r: r's error, the
\* error of reading a body that is no object, or the mapped result m
Finish(r, first, m) ==
    [reqs |-> <<r.req>>,
     out |-> IF r.out.kind # "ok" THEN r.out
             ELSE IF r.data.kind # "object"
               THEN Raised(IF first = "get" THEN "AttributeError" ELSE "TypeError")
             ELSE IF m.err # "" THEN Raised(m.err)
             ELSE Returned(m.value)]

\* an operation that ends in a validation error sends nothing
Rejected(msg) == [reqs |-> <<>>, out |-> ValidationError(msg)]

Path(base, id, suffix) == [base |-> base, id |-> id, suffix |-> suffix]

\* items first, then the object: [err, value] with the items under key
WithItems(mi, mo, key) ==
    IF mi.err # "" THEN [err |-> mi.err, value |-> NoResult]
    ELSE IF mo.err # "" THEN mo
    ELSE [err |-> "", value |-> mo.value @@ (key :> mi.value)]

Mapped(value) == [err |-> "", value |-> value]
Failed(err) == [err |-> err, value |-> NoResult]

ProofRequired == {"event_id", "tenant_id", "scope"}
ProofOptional ==
    {"batch_id", "leaf_index", "leaf_hex", "root_hex", "sig_base64", "pubkey_id",
     "pubkey_base64", "pubkey_hex", "batch_created_at"}
PathItemRequired == {"sibling_hex", "sibling_is_left"}
PathItemConv == ("sibling_is_left" :> "bool")
EventRequired ==
    {"id", "tenant_id", "scope", "op", "created_at", "event_hash_hex",
     "fields_canon", "meta_canon", "c_fields_hex"}
EventOptional == {"fields", "meta", "prev_hash_hex", "batch_id", "leaf_index"}
EventConv == ("fields" :> "dict") @@ ("meta" :> "dict")
RecomputeRequired == {"recomputed_event_hash_hex", "matches_stored"}
RecomputeConv == ("matches_stored" :> "bool")
ReceiptRequired ==
    {"receipt_id", "tenant_id", "scope", "delete_event_id", "delete_event_hash_hex",
     "sig_base64", "pubkey_id", "pubkey_base64", "pubkey_hex", "created_at"}

\* VmpClient.get_event_bundle, from `ev = data["event"]` on
get_event_bundle_decode(data) ==
    IF ~({"event", "proof", "recompute"} \subseteq DOMAIN data) THEN Failed("KeyError")
    ELSE IF data["proof"].t # "obj" THEN Failed("AttributeError")
    ELSE
      LET proof == NestedObj(data["proof"].v)
          proof_obj == WithItems(
              MapItems(Get(proof, "path"), PathItemRequired, {}, PathItemConv),
              MapObject(proof, ProofRequired, ProofOptional, NoConv), "path")
          event_obj == IF data["event"].t # "obj" THEN Failed("TypeError")
                       ELSE MapObject(NestedObj(data["event"].v), EventRequired,
                                      EventOptional, EventConv)
          recompute_obj == IF data["recompute"].t # "obj" THEN Failed("TypeError")
                           ELSE MapObject(NestedObj(data["recompute"].v),
                                          RecomputeRequired, {}, RecomputeConv)
      IN  IF proof_obj.err # "" THEN Failed(proof_obj.err)
          ELSE IF event_obj.err # "" THEN Failed(event_obj.err)
          ELSE IF recompute_obj.err # "" THEN Failed(recompute_obj.err)
          ELSE IF "kind" \notin DOMAIN data THEN Failed("KeyError")
          ELSE Mapped([kind |-> data["kind"], event |-> event_obj.value,
                       proof |-> proof_obj.value, recompute |-> recompute_obj.value])

\* _parse_event_bundle_from_dict reading the event's fields as ev["fields"]
parse_event_bundle_from_dict_fields_required(data) ==
    IF /\ get_event_bundle_decode(data).err = ""
       /\ "fields" \notin DOMAIN NestedObj(data["event"].v)
      THEN Failed("KeyError")
    ELSE get_event_bundle_decode(data)

\* VmpClient._parse_event_bundle_from_dict
parse_event_bundle_from_dict(data) ==
    IF ~({"event", "proof", "recompute"} \subseteq DOMAIN data) THEN Failed("KeyError")
    ELSE IF data["proof"].t # "obj" THEN Failed("AttributeError")
    ELSE
      LET proof == NestedObj(data["proof"].v)
          proof_obj == WithItems(
              MapItems(Get(proof, "path"), PathItemRequired, {}, PathItemConv),
              MapObject(proof, ProofRequired, ProofOptional, NoConv), "path")
          event_obj == IF data["event"].t # "obj" THEN Failed("TypeError")
                       ELSE MapObject(NestedObj(data["event"].v), EventRequired,
                                      EventOptional, EventConv)
          recompute_obj == IF data["recompute"].t # "obj" THEN Failed("TypeError")
                           ELSE MapObject(NestedObj(data["recompute"].v),
                                          RecomputeRequired, {}, RecomputeConv)
      IN  IF proof_obj.err # "" THEN Failed(proof_obj.err)
          ELSE IF event_obj.err # "" THEN Failed(event_obj.err)
          ELSE IF recompute_obj.err # "" THEN Failed(recompute_obj.err)
          ELSE IF "kind" \notin DOMAIN data THEN Failed("KeyError")
          ELSE Mapped([kind |-> data["kind"], event |-> event_obj.value,
                       proof |-> proof_obj.value, recompute |-> recompute_obj.value])

\* VmpClient.get_deletion_receipt_bundle, from `receipt = data["receipt"]` on
get_deletion_receipt_bundle_decode(data) ==
    IF ~({"receipt", "verification", "delete_event_bundle"} \subseteq DOMAIN data)
      THEN Failed("KeyError")
    ELSE
      LET receipt_obj == IF data["receipt"].t # "obj" THEN Failed("TypeError")
                         ELSE MapObject(NestedObj(data["receipt"].v), ReceiptRequired,
                                        {}, NoConv)
          ver_obj == IF data["verification"].t # "obj" THEN Failed("TypeError")
                     ELSE MapObject(NestedObj(data["verification"].v),
                                    {"receipt_id", "valid"}, {}, ("valid" :> "bool"))
          bundle_obj == IF data["delete_event_bundle"].t # "obj" THEN Failed("TypeError")
                        ELSE parse_event_bundle_from_dict(
                                 NestedObj(data["delete_event_bundle"].v))
      IN  IF receipt_obj.err # "" THEN Failed(receipt_obj.err)
          ELSE IF ver_obj.err # "" THEN Failed(ver_obj.err)
          ELSE IF bundle_obj.err # "" THEN Failed(bundle_obj.err)
          ELSE IF "kind" \notin DOMAIN data THEN Failed("KeyError")
          ELSE Mapped([kind |-> data["kind"], receipt |-> receipt_obj.value,
                       verification |-> ver_obj.value,
                       delete_event_bundle |-> bundle_obj.value])

---------------------------------------------------------------------------
(* client.py: VmpClient.  self is [tenant_guardrail, scope_prefix_guardrail], *)
(* each an optional str; resp is what the transport answers if asked         *)

\* VmpClient.__init__ raises nothing for this scope_prefix
VmpClient_init_ok(scope_prefix) ==
    IsNone(scope_prefix) \/ IsNone(assert_scope_prefix(Val(scope_prefix)))

\* enforce_tenant without the comparison against the guardrail
enforce_tenant_unchecked(self, tenant_id) == assert_tenant_id(tenant_id)

enforce_tenant(self, tenant_id) ==
    FirstError(<<
      assert_tenant_id(tenant_id),
      IF /\ ~IsNone(self.tenant_guardrail)
         /\ Val(self.tenant_guardrail) # <<>>
         /\ tenant_id # Val(self.tenant_guardrail)
        THEN Some(<<"tenant_id", "mismatch">>)
      ELSE None >>)

enforce_scope_prefix(self, scope) ==
    IF IsNone(self.scope_prefix_guardrail) THEN None
    ELSE assert_scope_matches_prefix(scope, Val(self.scope_prefix_guardrail))

\* assert_scope and _enforce_scope_prefix on an optional scope filter
enforce_optional_scope(self, scope) ==
    IF IsNone(scope) THEN None
    ELSE FirstError(<<assert_scope(Val(scope)), enforce_scope_prefix(self, Val(scope))>>)

\* the inline limit check of admin_list_batches, admin_list_deletion_receipts
\* and list_api_keys
positive_limit(limit) ==
    IF ~IsNone(limit) /\ Val(limit) < 1
      THEN Some(<<"limit", "must be a positive integer">>)
    ELSE None

\* the query of the listing operations: tenant_id, then scope and limit when given
ListQuery(tenant_id, scope, limit) ==
    Some([tenant_id |-> tenant_id, scope |-> scope, limit |-> limit])

whoami(self, resp) ==
    LET r == Vmp_request_json("GET", Path("/v1/whoami", <<>>, ""), None, None, None,
                              TRUE, resp)
    IN  Finish(r, "item",
               MapObject(r.data.obj, {"tenant_id", "key_id"},
                         {"allowed_scopes", "scope_prefix"},
                         ("key_id" :> "str") @@ ("allowed_scopes" :> "list")))

\* ingest reading prev_hash_hex as data["prev_hash_hex"]
ingest_prev_required(self, tenant_id, scope, fields, meta, op, idempotency_key, resp) ==
    LET err == FirstError(<<enforce_tenant(self, tenant_id), assert_scope(scope),
                            enforce_scope_prefix(self, scope)>>)
        payload == [tenant_id |-> tenant_id, scope |-> scope, op |-> op,
                    fields |-> fields,
                    meta |-> IF IsNone(meta) THEN "{}" ELSE Val(meta)]
        r == Vmp_request_json("POST", Path("/v1/ingest", <<>>, ""), None,
                              Some(payload), idempotency_key, TRUE, resp)
    IN  IF ~IsNone(err) THEN Rejected(err)
        ELSE Finish(r, "item",
                    MapObject(r.data.obj,
                              {"event_id", "event_hash_hex", "created_at",
                               "prev_hash_hex"}, {}, NoConv))

ingest(self, tenant_id, scope, fields, meta, op, idempotency_key, resp) ==
    LET err == FirstError(<<enforce_tenant(self, tenant_id), assert_scope(scope),
                            enforce_scope_prefix(self, scope)>>)
        payload == [tenant_id |-> tenant_id, scope |-> scope, op |-> op,
                    fields |-> fields,
                    meta |-> IF IsNone(meta) THEN "{}" ELSE Val(meta)]
        r == Vmp_request_json("POST", Path("/v1/ingest", <<>>, ""), None,
                              Some(payload), idempotency_key, TRUE, resp)
    IN  IF ~IsNone(err) THEN Rejected(err)
        ELSE Finish(r, "item",
                    MapObject(r.data.obj, {"event_id", "event_hash_hex", "created_at"},
                              {"prev_hash_hex"}, NoConv))

delete(self, tenant_id, scope, target_event_id, meta, resp) ==
    LET err == FirstError(<<enforce_tenant(self, tenant_id), assert_scope(scope),
                            enforce_scope_prefix(self, scope),
                            assert_uuid_like("target_event_id", target_event_id)>>)
        payload == [tenant_id |-> tenant_id, scope |-> scope,
                    target_event_id |-> target_event_id,
                    meta |-> IF IsNone(meta) THEN "{}" ELSE Val(meta)]
        r == Vmp_request_json("POST", Path("/v1/delete", <<>>, ""), None,
                              Some(payload), None, TRUE, resp)
    IN  IF ~IsNone(err) THEN Rejected(err)
        ELSE Finish(r, "item",
                    MapObject(r.data.obj,
                              {"delete_event_id", "delete_event_hash_hex", "receipt_id",
                               "receipt_sig_base64", "pubkey_id", "pubkey_base64",
                               "pubkey_hex", "created_at"}, {}, NoConv))

get_proof(self, event_id, resp) ==
    LET err == assert_uuid_like("event_id", event_id)
        r == Vmp_request_json("GET", Path("/v1/proof/", event_id, ""), None, None,
                              None, TRUE, resp)
    IN  IF ~IsNone(err) THEN Rejected(err)
        ELSE Finish(r, "get",
                    WithItems(MapItems(Get(r.data.obj, "path"), PathItemRequired, {},
                                       PathItemConv),
                              MapObject(r.data.obj, ProofRequired, ProofOptional, NoConv),
                              "path"))

get_deletion_receipt(self, receipt_id, resp) ==
    LET err == assert_uuid_like("receipt_id", receipt_id)
        r == Vmp_request_json("GET", Path("/v1/deletion-receipts/", receipt_id, ""),
                              None, None, None, TRUE, resp)
    IN  IF ~IsNone(err) THEN Rejected(err)
        ELSE Finish(r, "item", MapObject(r.data.obj, ReceiptRequired, {}, NoConv))

verify_deletion(self, receipt_id, resp) ==
    LET err == assert_uuid_like("receipt_id", receipt_id)
        r == Vmp_request_json("GET", Path("/v1/verify-deletion/", receipt_id, ""),
                              None, None, None, TRUE, resp)
    IN  IF ~IsNone(err) THEN Rejected(err)
        ELSE Finish(r, "item",
                    MapObject(r.data.obj,
                              {"receipt_id", "valid", "tenant_id", "scope",
                               "delete_event_id", "delete_event_hash_hex", "pubkey_id",
                               "pubkey_base64", "pubkey_hex", "created_at"}, {},
                              ("valid" :> "bool")))

get_event_bundle(self, event_id, resp) ==
    LET err == assert_uuid_like("event_id", event_id)
        r == Vmp_request_json("GET", Path("/v1/events/", event_id, "/bundle"), None,
                              None, None, TRUE, resp)
    IN  IF ~IsNone(err) THEN Rejected(err)
        ELSE Finish(r, "item", get_event_bundle_decode(r.data.obj))

get_deletion_receipt_bundle(self, receipt_id, resp) ==
    LET err == assert_uuid_like("receipt_id", receipt_id)
        r == Vmp_request_json("GET",
                              Path("/v1/deletion-receipts/", receipt_id, "/bundle"),
                              None, None, None, TRUE, resp)
    IN  IF ~IsNone(err) THEN Rejected(err)
        ELSE Finish(r, "item", get_deletion_receipt_bundle_decode(r.data.obj))

verify_event_bundle_offline(self, bundle, resp) ==
    LET r == Vmp_request_json("POST", Path("/v1/verify/bundle", <<>>, ""), None,
                              Some(bundle), None, FALSE, resp)
    IN  Finish(r, "get",
               MapObject(r.data.obj, {}, {"ok", "checks"},
                         ("ok" :> "bool") @@ ("checks" :> "dict")))

verify_deletion_bundle_offline(self, bundle, resp) ==
    LET r == Vmp_request_json("POST", Path("/v1/verify/deletion-bundle", <<>>, ""),
                              None, Some(bundle), None, FALSE, resp)
    IN  Finish(r, "get",
               MapObject(r.data.obj, {}, {"ok", "checks"},
                         ("ok" :> "bool") @@ ("checks" :> "dict")))

admin_list_events(self, tenant_id, scope, limit, resp) ==
    LET err == FirstError(<<enforce_tenant(self, tenant_id),
                            enforce_optional_scope(self, scope), assert_limit(limit)>>)
        r == Vmp_request_json("GET", Path("/v1/admin/events", <<>>, ""),
                              ListQuery(tenant_id, scope, limit), None, None, TRUE, resp)
    IN  IF ~IsNone(err) THEN Rejected(err)
        ELSE Finish(r, "get",
                    WithItems(MapItems(Get(r.data.obj, "items"),
                                       {"id", "tenant_id", "scope", "op", "created_at"},
                                       {"batch_id", "leaf_index"}, NoConv),
                              Mapped(NoResult), "items"))

admin_list_batches(self, tenant_id, limit, resp) ==
    LET err == FirstError(<<enforce_tenant(self, tenant_id), positive_limit(limit)>>)
        r == Vmp_request_json("GET", Path("/v1/admin/batches", <<>>, ""),
                              ListQuery(tenant_id, None, limit), None, None, TRUE, resp)
    IN  IF ~IsNone(err) THEN Rejected(err)
        ELSE Finish(r, "get",
                    WithItems(MapItems(Get(r.data.obj, "items"),
                                       {"id", "tenant_id", "root_hex", "count",
                                        "created_at"},
                                       {"sig_base64", "pubkey_id", "pubkey_base64",
                                        "pubkey_hex"}, ("count" :> "int")),
                              Mapped(NoResult), "items"))

admin_list_deletion_receipts(self, tenant_id, scope, limit, resp) ==
    LET err == FirstError(<<enforce_tenant(self, tenant_id),
                            enforce_optional_scope(self, scope), positive_limit(limit)>>)
        r == Vmp_request_json("GET", Path("/v1/admin/deletion-receipts", <<>>, ""),
                              ListQuery(tenant_id, scope, limit), None, None, TRUE, resp)
    IN  IF ~IsNone(err) THEN Rejected(err)
        ELSE Finish(r, "get",
                    WithItems(MapItems(Get(r.data.obj, "items"), ReceiptRequired, {},
                                       NoConv),
                              Mapped(NoResult), "items"))

admin_stats(self, resp) ==
    LET r == Vmp_request_json("GET", Path("/v1/admin/stats", <<>>, ""), None, None,
                              None, TRUE, resp)
    IN  Finish(r, "item",
               MapObject(r.data.obj, {"events_total", "batches_total", "receipts_total"},
                         {}, ("events_total" :> "int") @@ ("batches_total" :> "int") @@
                             ("receipts_total" :> "int")))

get_pubkey(self, pubkey_id, resp) ==
    LET err == assert_non_empty("pubkey_id", pubkey_id)
        r == Vmp_request_json("GET", Path("/v1/pubkeys/", pubkey_id, ""), None, None,
                              None, TRUE, resp)
    IN  IF ~IsNone(err) THEN Rejected(err)
        ELSE Finish(r, "item",
                    MapObject(r.data.obj,
                              {"pubkey_id", "alg", "status", "pubkey_base64",
                               "pubkey_hex"}, {}, NoConv))

---------------------------------------------------------------------------
(* client.py: ProvisioningClient *)

\* payload is a dict: tenant_id and scope_prefix are optional strs, None when
\* the key is missing (scope_prefix: or null)
create_api_key(payload, resp) ==
    LET err == FirstError(<<
                 assert_tenant_id(Val(payload.tenant_id)),
                 IF ~IsNone(payload.scope_prefix)
                   THEN assert_scope_prefix(Val(payload.scope_prefix))
                 ELSE None >>)
        r == Prov_request_json("POST", Path("/v1/admin/api-keys", <<>>, ""), None,
                               Some(payload), resp)
    IN  IF IsNone(payload.tenant_id)
          THEN [reqs |-> <<>>, out |-> Raised("KeyError")]
        ELSE IF ~IsNone(err) THEN Rejected(err)
        ELSE Finish(r, "item",
                    MapObject(r.data.obj,
                              {"id", "tenant_id", "name", "created_at", "key_prefix",
                               "secret"},
                              {"scopes", "scope_prefix", "expires_at"},
                              ("scopes" :> "list")))

revoke_api_key(key_id, resp) ==
    LET err == assert_uuid_like("id", key_id)
        r == Prov_request_json("POST", Path("/v1/admin/api-keys/revoke", <<>>, ""),
                               None, Some([id |-> key_id]), resp)
    IN  IF ~IsNone(err) THEN Rejected(err)
        ELSE Finish(r, "item",
                    MapObject(r.data.obj,
                              {"id", "tenant_id", "name", "key_prefix", "created_at",
                               "revoked_at"}, {"scopes", "expires_at"},
                              ("scopes" :> "list")))

list_api_keys(tenant_id, limit, resp) ==
    LET err == FirstError(<<assert_tenant_id(tenant_id), positive_limit(limit)>>)
        r == Prov_request_json("GET", Path("/v1/admin/api-keys", <<>>, ""),
                               ListQuery(tenant_id, None, limit), None, resp)
    IN  IF ~IsNone(err) THEN Rejected(err)
        ELSE Finish(r, "get",
                    WithItems(MapItems(Get(r.data.obj, "items"),
                                       {"id", "tenant_id", "name", "key_prefix",
                                        "created_at"},
                                       {"scopes", "expires_at", "revoked_at"},
                                       ("scopes" :> "list")),
                              MapObject(r.data.obj, {"tenant_id"}, {}, NoConv),
                              "items"))

---------------------------------------------------------------------------
(* Inputs the callers and the server are drawn from *)

T0 == <<"t", "0">>
T1 == <<"t", "1">>
TenantIds == {T0, T1, <<>>, <<"t", " ", "1">>, Rep("a", MaxNameLen + 1)}
\* tenant_id given to VmpClient(...): not validated by the constructor
TenantGuardrails == {None, Some(<<>>), Some(T0)}
\* scope_prefix given to VmpClient(...)
ScopePrefixes ==
    {None, Some(<<"u", ":">>), Some(<<"u", ":", "a", ":">>), Some(<<"u">>), Some(<<" ">>)}
Scopes ==
    {<<"u", ":", "a">>, <<"v", ":", "a">>, <<"u", "a">>, <<>>,
     <<"u", ":">> \o Rep("a", MaxNameLen - 1)}
OptionalScopes == {None} \cup {Some(sc) : sc \in Scopes}
HexId == <<"0","1","2","3","4","5","6","7","8","9","a","b","C","D","-","f">>
Ids ==
    {HexId, SubSeq(HexId, 1, MinUuidLen - 1), [HexId EXCEPT ![3] = "g"],
     HexId \o <<"\n">>, <<>>}
Limits == {None, Some(0 - 1), Some(0), Some(1), Some(MaxLimit), Some(MaxLimit + 1)}
IdempotencyKeys == {None, Some(<<>>), Some(<<"i", "1">>)}
Metas == {None, Some("{\"a\":1}")}
Bundles == {"{\"kind\":\"event_bundle\"}"}
CreateKeyPayloads ==
    [tenant_id : {None, Some(T0), Some(<<>>)},
     scope_prefix : {None, Some(<<"u", ":">>), Some(<<"u">>)}]

StatusCodes == {199, 200, 299, 300, 422}
CommonBodies ==
    {<<>>, <<" ", "\n">>, <<P_ErrDetails>>, <<" ", P_ErrOnly, "\n">>, <<P_ErrNotStr>>,
     <<" ", P_Text, " ">>, <<P_Array>>, <<P_EmptyObj>>, <<P_Rich>>}
\* what the transport may answer: a timeout, or any status with a common body
\* or one of the bodies given
Responses(bodies) ==
    {TimedOut} \cup {Response(st, b) : st \in StatusCodes, b \in CommonBodies \cup bodies}

\* the clock of a wait_for_batch call stops here: past every deadline
ClockCap == MaxTimeout + MaxInterval + 1

---------------------------------------------------------------------------
(* State *)

VARIABLES
    tenant_guardrail,        \* VmpClient._tenant_guardrail
    scope_prefix_guardrail,  \* VmpClient._scope_prefix_guardrail
    pc,                      \* the caller: "ready", inside wait_for_batch
                             \* ("poll", "check", "sleep"), or "done"
    call,                    \* the operation called and its arguments
    sent,                    \* HTTP requests the call has issued
    request,                 \* the last request put on the wire, if any
    response,                \* the last answer of the transport, if any
    outcome,                 \* what the call returned or raised, once it ended
    now,                     \* wait_for_batch: time.time(), from the call's start
    deadline,                \* wait_for_batch: deadline
    polls,                   \* wait_for_batch: get_proof calls made, saturating
    batched_polls,           \* wait_for_batch: polls that gave a batch_id
    first_batched            \* wait_for_batch: the first proof with a batch_id

vars == <<tenant_guardrail, scope_prefix_guardrail, pc, call, sent, request,
          response, outcome, now, deadline, polls, batched_polls, first_batched>>

\* the VmpClient the operations are called on
client == [tenant_guardrail |-> tenant_guardrail,
           scope_prefix_guardrail |-> scope_prefix_guardrail]

NoCall ==
    [op |-> "", tenant_id |-> None, scope |-> None, id |-> None, limit |-> None,
     idempotency_key |-> None, payload |-> None, timeout_ms |-> None,
     poll_interval_ms |-> None]

Init ==
    /\ tenant_guardrail \in TenantGuardrails
    /\ scope_prefix_guardrail \in {sp \in ScopePrefixes : VmpClient_init_ok(sp)}
    /\ pc = "ready"
    /\ call = NoCall
    /\ sent = 0
    /\ request = None
    /\ response = None
    /\ outcome = None
    /\ now = 0
    /\ deadline = 0
    /\ polls = 0
    /\ batched_polls = 0
    /\ first_batched = None

\* a single-request operation runs from call to return or raise: c its
\* arguments, res what the operation's definition gives for the answer resp
Run(c, res, resp) ==
    /\ pc' = "done"
    /\ call' = c
    /\ sent' = Len(res.reqs)
    /\ request' = IF Len(res.reqs) > 0 THEN Some(res.reqs[Len(res.reqs)]) ELSE None
    /\ response' = IF Len(res.reqs) > 0 THEN Some(resp) ELSE None
    /\ outcome' = Some(res.out)
    /\ UNCHANGED <<tenant_guardrail, scope_prefix_guardrail, now, deadline, polls,
                   batched_polls, first_batched>>


Min(a, b) == IF a < b THEN a ELSE b

---------------------------------------------------------------------------
(* VmpClient operations *)

Whoami ==
    /\ pc = "ready"
    /\ \E resp \in Responses({}) :
         Run([NoCall EXCEPT !.op = "whoami"], whoami(client, resp), resp)

IngestBodies == {<<P_Ingest>>, <<P_IngestNoPrev>>, <<" ", P_IngestNumbers, "\n">>}

Ingest ==
    /\ pc = "ready"
    /\ \E tenant_id \in TenantIds, scope \in Scopes, meta \in Metas,
          idempotency_key \in IdempotencyKeys,
          resp \in Responses(IngestBodies) :
         Run([NoCall EXCEPT !.op = "ingest", !.tenant_id = Some(tenant_id),
                            !.scope = Some(scope),
                            !.idempotency_key = idempotency_key],
             ingest(client, tenant_id, scope, "{\"f\":1}", meta, "write",
                    idempotency_key, resp),
             resp)

Delete ==
    /\ pc = "ready"
    /\ \E tenant_id \in TenantIds, scope \in Scopes, target_event_id \in Ids,
          meta \in Metas, resp \in Responses({}) :
         Run([NoCall EXCEPT !.op = "delete", !.tenant_id = Some(tenant_id),
                            !.scope = Some(scope), !.id = Some(target_event_id)],
             delete(client, tenant_id, scope, target_event_id, meta, resp),
             resp)

\* the bodies /v1/events/{id}/bundle and /v1/deletion-receipts/{id}/bundle give
BundleBodies ==
    {<<EventBundleText[b]>> : b \in BundleNames} \cup
    {<<DeletionBundleText[b]>> : b \in BundleNames}

ProofBodies == {<<P_ProofPending>>, <<P_ProofBatched>>, <<P_ProofBatched2>>}

GetProof ==
    /\ pc = "ready"
    /\ \E event_id \in Ids, resp \in Responses(ProofBodies) :
         Run([NoCall EXCEPT !.op = "get_proof", !.id = Some(event_id)],
             get_proof(client, event_id, resp), resp)

GetDeletionReceipt ==
    /\ pc = "ready"
    /\ \E receipt_id \in Ids, resp \in Responses({}) :
         Run([NoCall EXCEPT !.op = "get_deletion_receipt", !.id = Some(receipt_id)],
             get_deletion_receipt(client, receipt_id, resp), resp)

VerifyDeletion ==
    /\ pc = "ready"
    /\ \E receipt_id \in Ids, resp \in Responses({}) :
         Run([NoCall EXCEPT !.op = "verify_deletion", !.id = Some(receipt_id)],
             verify_deletion(client, receipt_id, resp), resp)

GetEventBundle ==
    /\ pc = "ready"
    /\ \E event_id \in Ids, resp \in Responses(BundleBodies) :
         Run([NoCall EXCEPT !.op = "get_event_bundle", !.id = Some(event_id)],
             get_event_bundle(client, event_id, resp), resp)

GetDeletionReceiptBundle ==
    /\ pc = "ready"
    /\ \E receipt_id \in Ids,
          resp \in Responses(BundleBodies) :
         Run([NoCall EXCEPT !.op = "get_deletion_receipt_bundle",
                            !.id = Some(receipt_id)],
             get_deletion_receipt_bundle(client, receipt_id, resp), resp)

VerifyEventBundleOffline ==
    /\ pc = "ready"
    /\ \E bundle \in Bundles, resp \in Responses({}) :
         Run([NoCall EXCEPT !.op = "verify_event_bundle_offline"],
             verify_event_bundle_offline(client, bundle, resp), resp)

VerifyDeletionBundleOffline ==
    /\ pc = "ready"
    /\ \E bundle \in Bundles, resp \in Responses({}) :
         Run([NoCall EXCEPT !.op = "verify_deletion_bundle_offline"],
             verify_deletion_bundle_offline(client, bundle, resp), resp)

AdminListEvents ==
    /\ pc = "ready"
    /\ \E tenant_id \in TenantIds, scope \in OptionalScopes, limit \in Limits,
          resp \in Responses({<<P_ItemsBad>>}) :
         Run([NoCall EXCEPT !.op = "admin_list_events", !.tenant_id = Some(tenant_id),
                            !.scope = scope, !.limit = limit],
             admin_list_events(client, tenant_id, scope, limit, resp), resp)

AdminListBatches ==
    /\ pc = "ready"
    /\ \E tenant_id \in TenantIds, limit \in Limits,
          resp \in Responses({<<P_ItemsBad>>}) :
         Run([NoCall EXCEPT !.op = "admin_list_batches", !.tenant_id = Some(tenant_id),
                            !.limit = limit],
             admin_list_batches(client, tenant_id, limit, resp), resp)

AdminListDeletionReceipts ==
    /\ pc = "ready"
    /\ \E tenant_id \in TenantIds, scope \in OptionalScopes, limit \in Limits,
          resp \in Responses({<<P_ItemsBad>>}) :
         Run([NoCall EXCEPT !.op = "admin_list_deletion_receipts",
                            !.tenant_id = Some(tenant_id), !.scope = scope,
                            !.limit = limit],
             admin_list_deletion_receipts(client, tenant_id, scope, limit, resp), resp)

AdminStats ==
    /\ pc = "ready"
    /\ \E resp \in Responses({}) :
         Run([NoCall EXCEPT !.op = "admin_stats"], admin_stats(client, resp), resp)

GetPubkey ==
    /\ pc = "ready"
    /\ \E pubkey_id \in {<<"k", "1">>, <<" ">>}, resp \in Responses({}) :
         Run([NoCall EXCEPT !.op = "get_pubkey", !.id = Some(pubkey_id)],
             get_pubkey(client, pubkey_id, resp), resp)

---------------------------------------------------------------------------
(* ProvisioningClient operations *)

CreateApiKey ==
    /\ pc = "ready"
    /\ \E payload \in CreateKeyPayloads, resp \in Responses({}) :
         Run([NoCall EXCEPT !.op = "create_api_key", !.payload = Some(payload)],
             create_api_key(payload, resp), resp)

RevokeApiKey ==
    /\ pc = "ready"
    /\ \E key_id \in Ids, resp \in Responses({}) :
         Run([NoCall EXCEPT !.op = "revoke_api_key", !.id = Some(key_id)],
             revoke_api_key(key_id, resp), resp)

ListApiKeys ==
    /\ pc = "ready"
    /\ \E tenant_id \in TenantIds, limit \in Limits,
          resp \in Responses({<<P_ItemsBad>>}) :
         Run([NoCall EXCEPT !.op = "list_api_keys", !.tenant_id = Some(tenant_id),
                            !.limit = limit],
             list_api_keys(tenant_id, limit, resp), resp)

---------------------------------------------------------------------------
(* VmpClient.wait_for_batch: the poll loop, one step per statement.  The     *)
(* options are given as timeout_ms and poll_interval_ms; time is counted     *)
(* from the call's start, in the options' unit.                              *)

\* what the server answers to a poll
PollResponses ==
    {TimedOut, Response(200, <<P_ProofPending>>), Response(200, <<P_ProofBatched>>),
     Response(200, <<P_ProofBatched2>>), Response(200, <<P_EmptyObj>>),
     Response(422, <<P_ErrDetails>>)}

\* options = opts or WaitForBatchOptions(); deadline = time.time() + timeout
WaitForBatchStart ==
    /\ pc = "ready"
    /\ \E event_id \in Ids, timeout_ms \in 0..MaxTimeout,
          poll_interval_ms \in 0..MaxInterval :
      /\ pc' = "poll"
      /\ call' = [NoCall EXCEPT !.op = "wait_for_batch", !.id = Some(event_id),
                                !.timeout_ms = Some(timeout_ms),
                                !.poll_interval_ms = Some(poll_interval_ms)]
      /\ now' = 0
      /\ deadline' = 0 + timeout_ms
      /\ UNCHANGED <<tenant_guardrail, scope_prefix_guardrail, sent, request,
                     response, outcome, polls, batched_polls, first_batched>>

\* the return test of wait_for_batch reading leaf_index in place of batch_id
wait_for_batch_has_leaf_index(proof) == proof["leaf_index"].t # "null"

\* `if proof.batch_id is not None`
wait_for_batch_has_batch(proof) == proof["batch_id"].t # "null"

\* `if time.time() > deadline`
wait_for_batch_expired(time, dl) == time > dl

\* wait_for_batch raising the transport's timeout error past its deadline
wait_for_batch_transport_timeout == Raised(VmpTimeoutError)

\* the VemorakSdkError wait_for_batch raises past its deadline
wait_for_batch_timeout == ValidationError(Some(<<"wait_for_batch", "timed out">>))

\* a sleep that doubles the interval
wait_for_batch_sleep_doubled(time, poll_interval_ms) ==
    Min(time + 2 * poll_interval_ms, ClockCap)

\* time.sleep(options.poll_interval_ms / 1000.0): the clock when it returns
wait_for_batch_sleep(time, poll_interval_ms) == Min(time + poll_interval_ms, ClockCap)

\* proof = self.get_proof(event_id); if proof.batch_id is not None: return proof
WaitForBatchPoll ==
    /\ pc = "poll"
    /\ \E resp \in PollResponses :
      LET res == get_proof(client, Val(call.id), resp)
          n == Len(res.reqs)
          batched == res.out.kind = "ok" /\ res.out.result["batch_id"].t # "null"
          returns == res.out.kind = "ok" /\ wait_for_batch_has_batch(res.out.result)
      IN  /\ polls' = Min(polls + 1, MaxPolls)
          /\ sent' = Min(sent + n, MaxPolls)
          /\ request' = IF n > 0 THEN Some(res.reqs[n]) ELSE request
          /\ response' = IF n > 0 THEN Some(resp) ELSE response
          /\ batched_polls' = IF batched THEN Min(batched_polls + 1, 2)
                              ELSE batched_polls
          /\ first_batched' = IF batched /\ IsNone(first_batched)
                                THEN Some(res.out.result)
                              ELSE first_batched
          /\ IF res.out.kind # "ok" \/ returns
               THEN pc' = "done" /\ outcome' = Some(res.out)
             ELSE pc' = "check" /\ outcome' = None
          /\ UNCHANGED <<tenant_guardrail, scope_prefix_guardrail, call, now,
                         deadline>>

\* if time.time() > deadline: raise VemorakSdkError(...)
WaitForBatchCheck ==
    /\ pc = "check"
    /\ IF wait_for_batch_expired(now, deadline)
         THEN pc' = "done" /\ outcome' = Some(wait_for_batch_timeout)
       ELSE pc' = "sleep" /\ outcome' = outcome
    /\ UNCHANGED <<tenant_guardrail, scope_prefix_guardrail, call, sent, request,
                   response, now, deadline, polls, batched_polls, first_batched>>

\* time.sleep(options.poll_interval_ms / 1000.0)
WaitForBatchSleep ==
    /\ pc = "sleep"
    /\ pc' = "poll"
    /\ now' = wait_for_batch_sleep(now, Val(call.poll_interval_ms))
    /\ UNCHANGED <<tenant_guardrail, scope_prefix_guardrail, call, sent, request,
                   response, outcome, deadline, polls, batched_polls, first_batched>>

\* time passes while wait_for_batch runs
Tick ==
    /\ pc \in {"poll", "check", "sleep"}
    /\ now < ClockCap
    /\ now' = now + 1
    /\ UNCHANGED <<tenant_guardrail, scope_prefix_guardrail, pc, call, sent, request,
                   response, outcome, deadline, polls, batched_polls, first_batched>>

\* the caller takes the result; the client is ready for the next call
Release ==
    /\ pc = "done"
    /\ pc' = "ready"
    /\ call' = NoCall
    /\ sent' = 0
    /\ request' = None
    /\ response' = None
    /\ outcome' = None
    /\ now' = 0
    /\ deadline' = 0
    /\ polls' = 0
    /\ batched_polls' = 0
    /\ first_batched' = None
    /\ UNCHANGED <<tenant_guardrail, scope_prefix_guardrail>>

Next ==
    \/ Whoami
    \/ Ingest
    \/ Delete
    \/ GetProof
    \/ GetDeletionReceipt
    \/ VerifyDeletion
    \/ GetEventBundle
    \/ GetDeletionReceiptBundle
    \/ VerifyEventBundleOffline
    \/ VerifyDeletionBundleOffline
    \/ AdminListEvents
    \/ AdminListBatches
    \/ AdminListDeletionReceipts
    \/ AdminStats
    \/ GetPubkey
    \/ CreateApiKey
    \/ RevokeApiKey
    \/ ListApiKeys
    \/ WaitForBatchStart
    \/ WaitForBatchPoll
    \/ WaitForBatchCheck
    \/ WaitForBatchSleep
    \/ Tick
    \/ Release

Spec == Init /\ [][Next]_vars

\* the calling thread runs wait_for_batch's statements one after the other,
\* and the wall clock advances
FairSpec ==
    /\ Spec
    /\ WF_vars(WaitForBatchPoll)
    /\ WF_vars(WaitForBatchCheck)
    /\ WF_vars(WaitForBatchSleep)
    /\ WF_vars(Tick)

TypeOK ==
    /\ pc \in {"ready", "poll", "check", "sleep", "done"}
    /\ sent \in 0..MaxPolls
    /\ polls \in 0..MaxPolls
    /\ now \in 0..ClockCap
    /\ (pc = "done") = ~IsNone(outcome)

---------------------------------------------------------------------------
(* Properties *)

Ended == pc = "done"
Out == Val(outcome)
\* the call ended in a validation error and put nothing on the wire
RejectedLocally == Out.kind = VemorakSdkError /\ ~IsNone(Out.msg) /\ sent = 0

TenantScopedOps ==
    {"ingest", "delete", "admin_list_events", "admin_list_batches",
     "admin_list_deletion_receipts"}
ScopedOps == {"ingest", "delete", "admin_list_events", "admin_list_deletion_receipts"}
ListingOps ==
    {"admin_list_events", "admin_list_batches", "admin_list_deletion_receipts",
     "list_api_keys"}

\* C1, as stated: with a tenant guardrail t0 given to the client, a
\* tenant-scoped operation called with tenant_id # t0 raises a validation
\* error and sends no request.
C1_AnyGuardrail ==
    (/\ Ended
     /\ call.op \in TenantScopedOps
     /\ ~IsNone(tenant_guardrail)
     /\ Val(call.tenant_id) # Val(tenant_guardrail))
    => RejectedLocally

\* C1 (amended): with a non-empty tenant guardrail t0 given to the client, a
\* tenant-scoped operation called with tenant_id # t0 raises a validation
\* error and sends no request.
C1_TenantGuardrail ==
    (/\ Ended
     /\ call.op \in TenantScopedOps
     /\ ~IsNone(tenant_guardrail)
     /\ Val(tenant_guardrail) # <<>>
     /\ Val(call.tenant_id) # Val(tenant_guardrail))
    => RejectedLocally

\* a well-formed tenant_id other than the guardrail's is refused
C1_Witness ==
    /\ Ended
    /\ call.op = "admin_list_batches"
    /\ tenant_guardrail = Some(T0)
    /\ call.tenant_id = Some(T1)
    /\ Out.msg = Some(<<"tenant_id", "mismatch">>)
    /\ sent = 0

\* C2: with a scope-prefix guardrail p, ingest, delete, admin_list_events and
\* admin_list_deletion_receipts called with a scope that does not start with p
\* raise a validation error and send no request.
C2_ScopePrefixGuardrail ==
    (/\ Ended
     /\ call.op \in ScopedOps
     /\ ~IsNone(scope_prefix_guardrail)
     /\ ~IsNone(call.scope)
     /\ ~StartsWith(Val(call.scope), Val(scope_prefix_guardrail)))
    => RejectedLocally

\* a well-formed scope under another prefix is refused
C2_Witness ==
    /\ Ended
    /\ call.op = "admin_list_deletion_receipts"
    /\ scope_prefix_guardrail = Some(<<"u", ":">>)
    /\ call.scope = Some(<<"v", ":", "a">>)
    /\ Out.msg = Some(<<"scope", "outside key prefix">>)
    /\ sent = 0

\* C3: ingest, delete, admin_list_events and admin_list_deletion_receipts
\* called with a scope that has no ":" raise a validation error and send no
\* request.
C3_ScopeSeparator ==
    (/\ Ended
     /\ call.op \in ScopedOps
     /\ ~IsNone(call.scope)
     /\ ~Contains(Val(call.scope), ":"))
    => RejectedLocally

\* a non-empty scope without ":" is refused for that reason
C3_Witness ==
    /\ Ended
    /\ call.op = "delete"
    /\ call.scope = Some(<<"u", "a">>)
    /\ Out.msg = Some(<<"scope", "must contain ':' for namespacing">>)
    /\ sent = 0

\* C4: a listing operation (admin_list_events, admin_list_batches,
\* admin_list_deletion_receipts, list_api_keys) called with a limit outside
\* [1,500] raises a validation error and sends no request.
C4_LimitRange ==
    (/\ Ended
     /\ call.op \in ListingOps
     /\ ~IsNone(call.limit)
     /\ (Val(call.limit) < 1 \/ Val(call.limit) > 500))
    => RejectedLocally

OfflineOps == {"verify_event_bundle_offline", "verify_deletion_bundle_offline"}

\* C5: the request verify_event_bundle_offline and
\* verify_deletion_bundle_offline put on the wire carries no Authorization
\* header.
C5_NoAuthorization ==
    (Ended /\ call.op \in OfflineOps /\ sent > 0)
    => "Authorization" \notin DOMAIN Val(request).headers

\* the answer to the last poll was a proof whose batch_id is null
LastPollPending ==
    /\ ~IsNone(response)
    /\ get_proof(client, Val(call.id), Val(response)).out.kind = "ok"
    /\ get_proof(client, Val(call.id), Val(response)).out.result["batch_id"].t = "null"

\* C6: wait_for_batch returns the proof of the first poll whose batch_id is
\* not null: once a poll has given a batch_id the call has ended, with that
\* poll's proof as its result, so every earlier poll gave batch_id null and no
\* poll follows.
C6_FirstBatchedProof ==
    call.op = "wait_for_batch" =>
      /\ batched_polls > 0 =>
           /\ Ended
           /\ batched_polls = 1
           /\ outcome = Some(Returned(Val(first_batched)))
      /\ (Ended /\ Out.kind = "ok") =>
           /\ batched_polls = 1
           /\ Out.result["batch_id"].t # "null"
           /\ Out = get_proof(client, Val(call.id), Val(response)).out
      /\ pc \in {"check", "sleep"} => LastPollPending

\* wait_for_batch returns a batch_id after an earlier poll gave none
C6_Witness ==
    /\ Ended
    /\ call.op = "wait_for_batch"
    /\ Out.kind = "ok"
    /\ polls >= 2
    /\ Out.result["batch_id"] = Str("b2")

\* C7: wait_for_batch always ends when time advances, and when every poll of
\* the call gave a proof with batch_id null it ends by raising the deadline
\* error: a VemorakSdkError that is neither VmpTimeoutError nor VmpHttpError.
C7_DeadlineError ==
    /\ [](pc \in {"poll", "check", "sleep"} => <>(pc = "done"))
    /\ []((Ended /\ call.op = "wait_for_batch" /\ LastPollPending) =>
            /\ Out.kind = VemorakSdkError
            /\ Out.kind \notin {VmpTimeoutError, VmpHttpError}
            /\ Out.msg = Some(<<"wait_for_batch", "timed out">>)
            /\ now > deadline)

\* wait_for_batch gives up after polling more than once
C7_Witness ==
    /\ Ended
    /\ call.op = "wait_for_batch"
    /\ Out.kind = VemorakSdkError
    /\ Out.msg = Some(<<"wait_for_batch", "timed out">>)
    /\ polls >= 2
    /\ LastPollPending

\* the transport answered the call's last request with a response
Answered == ~IsNone(response) /\ ~Val(response).timeout
Status == Val(response).status_code
Body == Val(response).text
\* the body is a JSON object whose "error" is a string
HasErrorString ==
    RespJson(Body).kind = "object" /\ Get(RespJson(Body).obj, "error").t = "str"

\* C8 as stated: a response raises VmpHttpError exactly when its status is
\* outside [200,299).
C8_Below299 ==
    (Ended /\ Answered) =>
      (Out.kind = VmpHttpError <=> ~(200 <= Status /\ Status < 299))

\* C8 (amended): a response raises VmpHttpError, carrying its status, exactly
\* when the status is outside [200,300).
C8_StatusClass ==
    (Ended /\ Answered) =>
      /\ Out.kind = VmpHttpError <=> ~(200 <= Status /\ Status < 300)
      /\ Out.kind = VmpHttpError => Out.status = Status

\* status 300 is an error, in the provisioning client as well
C8_Witness ==
    /\ Ended
    /\ call.op = "revoke_api_key"
    /\ Answered
    /\ Status = 300
    /\ Out.kind = VmpHttpError

\* C9: for a non-2xx response whose body is a JSON object with a string
\* "error", the VmpHttpError carries the status, that string as its message,
\* the object's "details" (None when absent) and the raw body text; 422 with
\* {"error":"invalid input","details":{"field":"scope"}} gives exactly those.
C9_ErrorBody ==
    (Ended /\ Answered /\ (Status < 200 \/ Status >= 300)) =>
      /\ HasErrorString =>
           /\ Out.kind = VmpHttpError
           /\ Out.status = Status
           /\ Out.error = <<RespJson(Body).obj["error"].v>>
           /\ Out.details = Get(RespJson(Body).obj, "details")
           /\ Out.raw_body_text = Body
      /\ (Status = 422 /\ Body = <<P_ErrDetails>>) =>
           Out = Outcome(VmpHttpError, None, 422, <<"invalid input">>,
                         Obj("{\"field\":\"scope\"}"), <<P_ErrDetails>>, NoResult)
      /\ Body = <<" ", P_ErrOnly, "\n">> =>
           /\ Out.error = <<"not found">>
           /\ Out.details = Null
           /\ Out.raw_body_text = <<" ", P_ErrOnly, "\n">>

\* ingest answered 422 with the documented error body
C9_Witness ==
    /\ Ended
    /\ call.op = "ingest"
    /\ response = Some(Response(422, <<P_ErrDetails>>))
    /\ Out.error = <<"invalid input">>
    /\ Out.details = Obj("{\"field\":\"scope\"}")

\* C10: for a non-2xx response whose body is no JSON object with a string
\* "error", the VmpHttpError message is the body text without its surrounding
\* whitespace, or "unknown error" when the body is empty or only whitespace.
C10_FallbackMessage ==
    (Ended /\ Answered /\ (Status < 200 \/ Status >= 300) /\ ~HasErrorString) =>
      /\ Out.kind = VmpHttpError
      /\ Out.error = IF Strip(Body) = <<>> THEN <<"unknown error">> ELSE Strip(Body)
      /\ Body \in {<<>>, <<" ", "\n">>} => Out.error = <<"unknown error">>
      /\ Body = <<" ", P_Text, " ">> => Out.error = <<P_Text>>
      /\ Body = <<P_Array>> => Out.error = <<P_Array>>
      /\ Body = <<P_ErrNotStr>> => Out.error = <<P_ErrNotStr>>

\* a plain-text error body, padded with whitespace, in the provisioning client
C10_Witness ==
    /\ Ended
    /\ call.op = "create_api_key"
    /\ Answered
    /\ Status = 422
    /\ Body = <<" ", P_Text, " ">>
    /\ Out.error = <<P_Text>>
    /\ Out.raw_body_text = <<" ", P_Text, " ">>

\* the transport answered the call's last request with a timeout
TransportTimedOut == ~IsNone(response) /\ Val(response).timeout

\* C11: in either client, an operation whose request the transport times out
\* raises VmpTimeoutError, never VmpHttpError; an operation whose request got
\* a response, whatever its status, never raises VmpTimeoutError.
C11_TimeoutError ==
    Ended =>
      /\ TransportTimedOut =>
           /\ Out.kind = VmpTimeoutError
           /\ Out.kind # VmpHttpError
           /\ sent > 0
      /\ Answered => Out.kind # VmpTimeoutError
      /\ Out.kind = VmpTimeoutError <=> TransportTimedOut

\* a timed-out request of the VmpClient raises the timeout error
C11_Witness ==
    /\ Ended
    /\ call.op = "delete"
    /\ TransportTimedOut
    /\ sent = 1
    /\ Out.kind = VmpTimeoutError

\* the server answered with a success status and an empty or whitespace-only body
EmptySuccess ==
    /\ Answered
    /\ ~Vmp_is_error_status(Status)
    /\ Strip(Body) = <<>>

\* C12: a call answered with a success status and an empty or whitespace-only
\* body returns a result; no exception reaches the caller.
C12_EmptyBodyReturns ==
    (Ended /\ EmptySuccess) => Out.kind = "ok"

\* the call was refused before _request_json: a validator raised, or
\* create_api_key read the tenant_id its payload lacks
RefusedLocally ==
    \/ Out.kind = VemorakSdkError /\ ~IsNone(Out.msg)
    \/ /\ call.op = "create_api_key"
       /\ IsNone(Val(call.payload).tenant_id)

\* C13: an operation other than wait_for_batch whose local validation passes
\* issues exactly one HTTP request, whether the request ends in success, in a
\* non-2xx response or in a transport timeout, and an operation refused
\* locally issues none.
C13_OneRequest ==
    (Ended /\ call.op # "wait_for_batch") =>
      /\ ~RefusedLocally => sent = 1
      /\ RefusedLocally => sent = 0
      /\ (TransportTimedOut \/ Out.kind \in {VmpHttpError, VmpTimeoutError}) => sent = 1

\* a provisioning request answered with an error status was sent once
C13_Witness ==
    /\ Ended
    /\ call.op = "list_api_keys"
    /\ Answered
    /\ Status = 422
    /\ Out.kind = VmpHttpError
    /\ sent = 1

UuidOps ==
    {"delete", "get_proof", "wait_for_batch", "get_deletion_receipt",
     "verify_deletion", "get_event_bundle", "get_deletion_receipt_bundle",
     "revoke_api_key"}

\* a string of at least 16 characters, each a hex digit or a dash
IsHexDashString(value) ==
    /\ Len(value) >= 16
    /\ \A i \in 1..Len(value) : value[i] \in HexDashChars

\* the call was refused because its identifier is empty or does not look like a UUID
UuidRefused ==
    /\ ~IsNone(Out.msg)
    /\ Val(Out.msg)[1] \in {"target_event_id", "event_id", "receipt_id", "id"}

\* C14: an operation taking a UUID-like identifier, called with an identifier
\* that is not a string of at least 16 hex digits and dashes, raises a
\* validation error and sends no request; called with such a string, it is
\* not refused for its identifier.
C14_UuidLike ==
    (Ended /\ call.op \in UuidOps) =>
      /\ ~IsHexDashString(Val(call.id)) => RejectedLocally
      /\ IsHexDashString(Val(call.id)) => ~UuidRefused

\* the last request put on the wire carries the x-idempotency-key header
SendsIdempotencyKey == "x-idempotency-key" \in DOMAIN Val(request).headers

\* C15, as stated: ingest sends x-idempotency-key exactly when an
\* idempotency_key is supplied.
C15_WheneverSupplied ==
    (Ended /\ call.op = "ingest" /\ sent > 0) =>
      (SendsIdempotencyKey <=> ~IsNone(call.idempotency_key))

\* C15 (amended): ingest sends x-idempotency-key, with the caller's value,
\* exactly when a non-empty idempotency_key is supplied, and no request of any
\* other operation carries that header.
C15_IdempotencyHeader ==
    ~IsNone(request) =>
      /\ SendsIdempotencyKey <=>
           /\ call.op = "ingest"
           /\ ~IsNone(call.idempotency_key)
           /\ Val(call.idempotency_key) # <<>>
      /\ SendsIdempotencyKey =>
           Val(request).headers["x-idempotency-key"] = Val(call.idempotency_key)

\* ingest called with a key puts that key in the header
C15_Witness ==
    /\ Ended
    /\ call.op = "ingest"
    /\ call.idempotency_key = Some(<<"i", "1">>)
    /\ sent = 1
    /\ SendsIdempotencyKey
    /\ Val(request).headers["x-idempotency-key"] = <<"i", "1">>

\* the call got a success response whose body is a JSON object
GotObject ==
    /\ Ended
    /\ sent > 0
    /\ Answered
    /\ ~Vmp_is_error_status(Status)
    /\ RespJson(Body).kind = "object"

\* the bundle object nested in the body of a deletion-receipt bundle whose
\* receipt and verification are well formed
NestedBundle == NestedObj(RespJson(Body).obj["delete_event_bundle"].v)
HasNestedBundle ==
    /\ GotObject
    /\ {"kind", "receipt", "verification", "delete_event_bundle"}
         \subseteq DOMAIN RespJson(Body).obj
    /\ RespJson(Body).obj["receipt"] = Obj("rcpt1")
    /\ RespJson(Body).obj["verification"] = Obj("ver1")
    /\ RespJson(Body).obj["delete_event_bundle"].t = "obj"

\* C16: the decoding of the bundle nested in get_deletion_receipt_bundle and
\* the top-level decoding of get_event_bundle are the same mapping: on every
\* bundle object both give equal EventBundleResponse values or fail alike, so
\* what get_event_bundle gives for a body is what the nested decoder gives for
\* it, and what get_deletion_receipt_bundle gives for the nested bundle is
\* what the top-level decoder gives for it.
C16_SameDecoding ==
    /\ \A b \in BundleNames :
         get_event_bundle_decode(NestedObj(b)) = parse_event_bundle_from_dict(NestedObj(b))
    /\ (GotObject /\ call.op = "get_event_bundle") =>
         LET m == parse_event_bundle_from_dict(RespJson(Body).obj)
         IN  Out = IF m.err = "" THEN Returned(m.value) ELSE Raised(m.err)
    /\ (HasNestedBundle /\ call.op = "get_deletion_receipt_bundle") =>
         LET m == get_event_bundle_decode(NestedBundle)
         IN  IF m.err = ""
               THEN Out.kind = "ok" /\ Out.result["delete_event_bundle"] = m.value
             ELSE Out = Raised(m.err)

\* a nested bundle without the optional event fields is decoded with the
\* defaults of the top-level decoding
C16_Witness ==
    /\ HasNestedBundle
    /\ call.op = "get_deletion_receipt_bundle"
    /\ RespJson(Body).obj["delete_event_bundle"] = Obj("bundle2")
    /\ Out.kind = "ok"
    /\ Out.result["delete_event_bundle"]["event"]["fields"] = Obj("{}")
    /\ Out.result["delete_event_bundle"]["event"]["prev_hash_hex"] = Str("h1")
    /\ Out.result["delete_event_bundle"]["event"]["batch_id"] = Null
    /\ Out.result["delete_event_bundle"]["recompute"]["matches_stored"] = Bool("false")
    /\ Out.result["delete_event_bundle"]["proof"]["path"] = <<>>

IngestKeys == {"event_id", "event_hash_hex", "created_at"}

\* C17: a valid ingest answered with a success status and a body holding
\* event_id, event_hash_hex and created_at returns an IngestResponse with
\* those three values as the body has them, and prev_hash_hex as the body has
\* it, None when the body has none.
C17_IngestRoundTrip ==
    (GotObject /\ call.op = "ingest" /\ IngestKeys \subseteq DOMAIN RespJson(Body).obj) =>
      /\ Out.kind = "ok"
      /\ DOMAIN Out.result = IngestKeys \cup {"prev_hash_hex"}
      /\ \A k \in IngestKeys : Out.result[k] = RespJson(Body).obj[k]
      /\ Out.result["prev_hash_hex"] =
           IF "prev_hash_hex" \in DOMAIN RespJson(Body).obj
             THEN RespJson(Body).obj["prev_hash_hex"]
           ELSE Null
      /\ Body = <<P_Ingest>> =>
           Out.result = ("event_id" :> Str("e1")) @@ ("event_hash_hex" :> Str("h1")) @@
                        ("created_at" :> Str("c1")) @@ ("prev_hash_hex" :> Str("h0"))
      /\ Body = <<P_IngestNoPrev>> =>
           Out.result = ("event_id" :> Str("e2")) @@ ("event_hash_hex" :> Str("h2")) @@
                        ("created_at" :> Str("c2")) @@ ("prev_hash_hex" :> Null)
      /\ Body = <<" ", P_IngestNumbers, "\n">> =>
           Out.result = ("event_id" :> Num("7")) @@ ("event_hash_hex" :> Str("h3")) @@
                        ("created_at" :> Num("1700000000")) @@ ("prev_hash_hex" :> Null)

\* an ingest response without prev_hash_hex comes back with it as None
C17_Witness ==
    /\ GotObject
    /\ call.op = "ingest"
    /\ Body = <<P_IngestNoPrev>>
    /\ Out.kind = "ok"
    /\ Out.result["event_id"] = Str("e2")
    /\ Out.result["prev_hash_hex"] = Null

InWaitForBatch == call.op = "wait_for_batch"

\* what get_proof gave in the poll a step has just made: a refusal of the
\* event_id when nothing was sent, else what it makes of the transport's answer
PolledOut ==
    IF IsNone(response') THEN get_proof(client, Val(call.id), TimedOut).out
    ELSE get_proof(client, Val(call.id), Val(response')).out

\* one step of wait_for_batch, by the statement it runs
C18_Step ==
    InWaitForBatch' =>
      \* the first statement after the deadline is set is a poll
      /\ pc = "ready" => pc' = "poll" /\ polls' = 0
      \* a poll that fails ends the call with get_proof's error, one that
      \* gives a batch_id ends it with the proof, any other goes to the
      \* deadline test
      /\ (pc = "poll" /\ pc' # "poll") =>
           /\ polls < MaxPolls => polls' = polls + 1
           /\ PolledOut.kind # "ok" =>
                /\ pc' = "done"
                /\ outcome' = Some(PolledOut)
                /\ outcome' # Some(wait_for_batch_timeout)
           /\ PolledOut.kind = "ok" => pc' \in {"check", "done"}
      \* the deadline test polls nothing
      /\ (pc = "check" /\ pc' # "check") =>
           /\ pc' \in {"sleep", "done"}
           /\ polls' = polls /\ sent' = sent /\ now' = now
      \* one sleep of poll_interval_ms, then the next poll
      /\ (pc = "sleep" /\ pc' # "sleep") =>
           /\ pc' = "poll"
           /\ now' = Min(now + Val(call.poll_interval_ms), ClockCap)
           /\ polls' = polls /\ sent' = sent
      \* nothing follows the end of the call
      /\ pc = "done" => pc' = "done"

\* C18: in wait_for_batch a poll that fails ends the loop at once with
\* get_proof's error unchanged (never the deadline error), no poll or sleep
\* follows it, consecutive polls are separated by exactly one sleep of
\* poll_interval_ms, and the call polls at least once, timeout_ms 0 included.
C18_PollLoop ==
    /\ [][C18_Step]_vars
    /\ []((InWaitForBatch /\ pc \in {"check", "sleep", "done"}) => polls >= 1)
    /\ []((InWaitForBatch /\ Ended) =>
            /\ TransportTimedOut => outcome = Some(Vmp_timeout_error)
            /\ (Answered /\ Vmp_is_error_status(Status)) =>
                 outcome = Some(Vmp_http_error(Status, Body))
            /\ sent = 0 => (polls = 1 /\ UuidRefused)
            /\ outcome = Some(wait_for_batch_timeout) => LastPollPending)

\* with timeout_ms 0 the call polls, sleeps, polls again, and the second
\* poll's transport timeout ends it
C18_Witness ==
    /\ InWaitForBatch
    /\ Ended
    /\ call.timeout_ms = Some(0)
    /\ call.poll_interval_ms = Some(2)
    /\ polls = 2
    /\ now = 2
    /\ Out.kind = VmpTimeoutError

===========================================================================
